---- MODULE Spec2Model ----
(***************************************************************************)
(* Anomaly-scoring service of collector-api/ml-model: the                  *)
(* AnomalyDetectionModel wrapper (model.py) and the FastAPI server that    *)
(* owns one process-wide instance of it (server.py).                       *)
(*                                                                         *)
(* Numbers: scores are in thousandths (0.5 is 500, 0.7 is 700); raw        *)
(* isolation scores are in tenths.  An estimator (IsolationForest) is the  *)
(* record of the two fitted attributes the scoring path reads:             *)
(* estimators_ (the id of the corpus the trees were grown on, 0 while the  *)
(* attribute is not set) and offset_ (0 while not set).  fit() sets        *)
(* estimators_ first and offset_ last.                                     *)
(***************************************************************************)
EXTENDS Integers, Sequences, FiniteSets, TLC

\* ------------------------------------------------------------------ bounds
\* number of in-flight /predict requests the server handles at once
MaxReq == 1
\* number of distinct synthetic corpora generate_training_data can draw
MaxCorpus == 2

Corpora == 1..MaxCorpus
Slots == 1..MaxReq

\* -------------------------------------------------------------- constants
\* columns of one generated sample (model.py generate_training_data)
NFeatures == 14
\* is_anomaly threshold of the endpoint, in thousandths
Threshold == 700
\* neutral score for empty features, in thousandths
Neutral == 500

\* ------------------------------------------------------------ JSON values
Num(v) == [t |-> "num", v |-> v]
Str == [t |-> "str", v |-> 0]
Nums(s) == [i \in 1..Len(s) |-> Num(s[i])]

\* the two samples of main(); error_rate is kept in percent (0.02 -> 2)
normal_sample ==
    Nums(<<50, 100, 20, 5, 15, 300000, 50, 200, 2, 0, 2, 0, 2, 43200000>>)
anomalous_sample ==
    Nums(<<200, 500, 80, 30, 100, 10000, 200, 1000, 20, 10, 15, 10, 5, 43200000>>)
short_sample == Nums(<<50, 100, 20>>)
long_sample == Nums(<<50, 100, 20, 5, 15, 300000, 50, 200, 2, 0, 2, 0, 2, 43200000, 7>>)
text_sample == [i \in 1..NFeatures |-> IF i = 3 THEN Str ELSE Num(1)]

\* request bodies and direct-call arguments the model draws from
Probes == {<<>>, normal_sample, anomalous_sample, short_sample, long_sample,
           text_sample}

\* ---------------------------------------------------- the outlier model
\* mean and spread of each generated feature (model.py lines 32-45)
FeatMean == <<50, 100, 20, 5, 15, 300000, 50, 200, 2, 0, 2, 0, 2, 43200000>>
FeatStd == <<30, 50, 15, 3, 10, 120000, 25, 100, 2, 1, 2, 1, 2, 43200000>>

Abs(x) == IF x < 0 THEN -x ELSE x
Min(a, b) == IF a < b THEN a ELSE b

\* how many features of X lie more than two spreads from the generator's mean
RECURSIVE Outlying(_, _)
Outlying(X, i) ==
    IF i = 0 THEN 0
    ELSE Outlying(X, i - 1)
         + (IF Abs(X[i].v - FeatMean[i]) > 2 * FeatStd[i] THEN 1 ELSE 0)

\* IsolationForest.score_samples in tenths (always negative; lower = easier
\* to isolate); the trees depend on the corpus they were grown on
score_samples(est, X) ==
    -(4 + (Outlying(X, Len(X)) \div 3) + (est.estimators_ % 2))

\* offset_ fit() derives from the corpus with contamination = 0.1
FittedOffset(k) == -(5 + (k \div 2))

Unfitted == [estimators_ |-> 0, offset_ |-> 0]
PartlyFitted(k) == [estimators_ |-> k, offset_ |-> 0]
Fitted(k) == [estimators_ |-> k, offset_ |-> FittedOffset(k)]

Complete(est) == est.estimators_ # 0 /\ est.offset_ # 0

Estimators == {Unfitted} \cup {PartlyFitted(k) : k \in Corpora}
                         \cup {Fitted(k) : k \in Corpora}

\* IsolationForest.decision_function as called at model.py line 87: rejects
\* a row of the wrong width or with a non-numeric cell, else
\* score_samples - offset_
decision_function(est, X) ==
    IF \E i \in 1..Len(X) : X[i].t # "num"
    THEN [raised |-> "ValueError", value |-> 0]
    ELSE IF Len(X) # NFeatures
    THEN [raised |-> "ValueError", value |-> 0]
    ELSE [raised |-> "none", value |-> score_samples(est, X) - est.offset_]

\* 1 / (1 + exp(-x)) for x in tenths, result in thousandths
SigmoidTable == <<525, 550, 574, 599, 622, 646, 668, 690, 711, 731>>
Sigmoid(x) ==
    IF x = 0 THEN 500
    ELSE IF x > 0 THEN SigmoidTable[Min(x, 10)]
    ELSE 1000 - SigmoidTable[Min(-x, 10)]


\* ------------------------------------------------ AnomalyDetectionModel
\* __init__: a fresh estimator and is_trained = False.  `none` is TRUE only
\* for the server's global before startup_event has bound it (model = None).
NewModel == [none |-> FALSE, model |-> Unfitted, is_trained |-> FALSE]
None == [none |-> TRUE, model |-> Unfitted, is_trained |-> FALSE]

Objects == {None} \cup [none : {FALSE}, model : Estimators, is_trained : BOOLEAN]

\* a train that raises the flag before fit() has run
train_flag_first(m, k) == [m EXCEPT !.model = PartlyFitted(k), !.is_trained = TRUE]

\* train, first half: generate_training_data draws corpus k and fit() has
\* started growing trees on it; is_trained is not touched yet
train_fit_begin(m, k) == [m EXCEPT !.model = PartlyFitted(k)]

\* a train that sets is_trained but loses the fitted offset_
train_fit_end_no_offset(m) ==
    [m EXCEPT !.model = PartlyFitted(m.model.estimators_), !.is_trained = TRUE]

\* train, second half: fit() returns, then is_trained = True
train_fit_end(m) ==
    [m EXCEPT !.model = Fitted(m.model.estimators_), !.is_trained = TRUE]

\* train as one call
train(m, k) == train_fit_end(train_fit_begin(m, k))

\* a predict_anomaly_score that tests for empty input before is_trained
predict_empty_first(m, features) ==
    IF Len(features) = 0
    THEN [raised |-> "none", score |-> Neutral, invoked |-> FALSE, est |-> Unfitted]
    ELSE IF ~m.is_trained
    THEN [raised |-> "NotTrained", score |-> 0, invoked |-> FALSE, est |-> Unfitted]
    ELSE LET d == decision_function(m.model, features)
         IN IF d.raised # "none"
            THEN [raised |-> d.raised, score |-> 0, invoked |-> TRUE, est |-> m.model]
            ELSE [raised |-> "none", score |-> Sigmoid(-d.value),
                  invoked |-> TRUE, est |-> m.model]

\* predict_anomaly_score: the result, whether decision_function was called
\* (invoked) and on which estimator
predict_anomaly_score(m, features) ==
    IF ~m.is_trained
    THEN [raised |-> "NotTrained", score |-> 0, invoked |-> FALSE, est |-> Unfitted]
    ELSE IF Len(features) = 0
    THEN [raised |-> "none", score |-> Neutral, invoked |-> FALSE, est |-> Unfitted]
    ELSE LET d == decision_function(m.model, features)
         IN IF d.raised # "none"
            THEN [raised |-> d.raised, score |-> 0, invoked |-> TRUE, est |-> m.model]
            ELSE [raised |-> "none", score |-> Sigmoid(-d.value),
                  invoked |-> TRUE, est |-> m.model]

\* a dump that leaves offset_ out of the pickled state
pickle_dump_no_offset(est) == <<128, est.estimators_, 0, 46>>

\* pickle.dump(self.model, f): protocol byte, the object's state, STOP opcode
pickle_dump(est) == <<128, est.estimators_, est.offset_, 46>>

\* pickle.load(f): a stream that is empty or lacks the STOP opcode raises
pickle_load(data) ==
    IF Len(data) = 4 /\ data[1] = 128 /\ data[4] = 46
    THEN [raised |-> "none", value |-> [estimators_ |-> data[2], offset_ |-> data[3]]]
    ELSE [raised |-> "UnpicklingError", value |-> Unfitted]

\* save_model's guard: "Cannot save untrained model"
save_model_guard(m) == IF ~m.is_trained THEN "NotTrained" ELSE "none"

\* open(filepath, 'wb'): the file exists and is empty
save_model_open(f) == [exists |-> TRUE, data |-> <<>>]

\* pickle.dump into the open file, written in one piece: the file then holds
\* this dump whatever it held before
save_model_dump(m, f) == [exists |-> TRUE, data |-> pickle_dump(m.model)]

\* a load_model that clears is_trained before it looks for the file
load_model_reset_first(m, f) ==
    IF ~f.exists
    THEN [raised |-> "FileNotFound", obj |-> [m EXCEPT !.is_trained = FALSE]]
    ELSE LET l == pickle_load(f.data)
         IN IF l.raised # "none"
            THEN [raised |-> l.raised, obj |-> [m EXCEPT !.is_trained = FALSE]]
            ELSE [raised |-> "none",
                  obj |-> [m EXCEPT !.model = l.value, !.is_trained = TRUE]]

\* load_model: the exception raised and the object afterwards
load_model(m, f) ==
    IF ~f.exists
    THEN [raised |-> "FileNotFound", obj |-> m]
    ELSE LET l == pickle_load(f.data)
         IN IF l.raised # "none"
            THEN [raised |-> l.raised, obj |-> m]
            ELSE [raised |-> "none",
                  obj |-> [m EXCEPT !.model = l.value, !.is_trained = TRUE]]

\* --------------------------------------------------------------- server
NoResp == [kind |-> "none", detail |-> "", score |-> 0, is_anomaly |-> FALSE,
           confidence |-> 0, invoked |-> FALSE, est |-> Unfitted,
           model_loaded |-> FALSE]

HTTP500(detail, invoked, est) ==
    [kind |-> "http500", detail |-> detail, score |-> 0, is_anomaly |-> FALSE,
     confidence |-> 0, invoked |-> invoked, est |-> est, model_loaded |-> FALSE]

\* a fallback that answers score 0.0
EmptyFallbackZero ==
    [kind |-> "verdict", detail |-> "", score |-> 0, is_anomaly |-> FALSE,
     confidence |-> 500, invoked |-> FALSE, est |-> Unfitted, model_loaded |-> FALSE]

\* PredictionResponse(score=0.5, is_anomaly=False, confidence=0.5)
EmptyFallback ==
    [kind |-> "verdict", detail |-> "", score |-> 500, is_anomaly |-> FALSE,
     confidence |-> 500, invoked |-> FALSE, est |-> Unfitted, model_loaded |-> FALSE]

\* min(1.0, abs(score - 0.5) * 2)
Confidence(score) == Min(1000, Abs(score - 500) * 2)

\* predict_anomaly line 62: TRUE when the request is refused
predict_anomaly_refused(m) == m.none \/ ~m.is_trained

\* predict_anomaly, the try block (lines 65-89), on the global it reads then
predict_anomaly_body(m, features) ==
    IF Len(features) = 0 THEN EmptyFallback
    ELSE IF \E i \in 1..Len(features) : features[i].t # "num"
    THEN HTTP500("Prediction error", FALSE, Unfitted)
    ELSE IF m.none THEN HTTP500("Prediction error", FALSE, Unfitted)
    ELSE LET r == predict_anomaly_score(m, features)
         IN IF r.raised # "none"
            THEN HTTP500("Prediction error", r.invoked, r.est)
            ELSE [kind |-> "verdict", detail |-> "", score |-> r.score,
                  is_anomaly |-> (r.score > Threshold),
                  confidence |-> Confidence(r.score),
                  invoked |-> r.invoked, est |-> r.est, model_loaded |-> FALSE]

\* health_check's response
health_check(m) ==
    [kind |-> "health", detail |-> "healthy", score |-> 0, is_anomaly |-> FALSE,
     confidence |-> 0, invoked |-> FALSE, est |-> Unfitted,
     model_loaded |-> (~m.none /\ m.is_trained)]


\* a startup that trains whether or not the file is there
startup_path_always_train(f) == "train"

\* startup_event lines 39-45: which branch the existence check selects
startup_path(f) == IF f.exists THEN "load" ELSE "train"

\* ---------------------------------------------------------------- state
VARIABLES
    file,      \* isolation_forest_model.pkl: [exists, data]
    pc,        \* where the server process is in its life
    model,     \* server.py's global `model`
    reqs,      \* the HTTP requests in flight, per worker slot
    client,    \* the AnomalyDetectionModel a script such as main() holds
    cpc,       \* "idle", or "saving" while the script is inside save_model
    last,      \* the script's last call and how it ended
    saved,     \* history: the estimator whose save_model wrote the file's present
               \* content (Unfitted while there is none), and whether a startup
               \* has finished save_model
    startup    \* history: the current startup's branch, and whether it began
               \* after some startup had finished save_model

vars == <<file, pc, model, reqs, client, cpc, last, saved, startup>>

IdleReq == [pc |-> "idle", features |-> <<>>, resp |-> NoResp]
Call(op, raised, score, invoked) ==
    [op |-> op, raised |-> raised, score |-> score, invoked |-> invoked]

Init ==
    /\ file = [exists |-> FALSE, data |-> <<>>]
    /\ pc = "stopped"
    /\ model = None
    /\ reqs = [i \in Slots |-> IdleReq]
    /\ client = NewModel
    /\ cpc = "idle"
    /\ last = Call("init", "none", 0, FALSE)
    /\ saved = [est |-> Unfitted, startupDone |-> FALSE]
    /\ startup = [path |-> "none", afterSave |-> FALSE]

\* ------------------------------------------------------- server process
\* `python server.py`: module globals are initialised, model = None
Start ==
    /\ pc = "stopped"
    /\ pc' = "new"
    /\ model' = None
    /\ startup' = [path |-> "none", afterSave |-> saved.startupDone]
    /\ UNCHANGED <<file, reqs, client, cpc, last, saved>>

\* startup_event line 34: model = AnomalyDetectionModel()
startup_bind ==
    /\ pc = "new"
    /\ model' = NewModel
    /\ pc' = "constructed"
    /\ UNCHANGED <<file, reqs, client, cpc, last, saved, startup>>

\* startup_event line 39: os.path.exists(model_path)
startup_exists ==
    /\ pc = "constructed"
    /\ startup' = [startup EXCEPT !.path = startup_path(file)]
    /\ pc' = IF startup_path(file) = "load" THEN "loading" ELSE "training"
    /\ UNCHANGED <<file, model, reqs, client, cpc, last, saved>>

\* startup_event line 41: model.load_model(model_path); an exception is re-raised
startup_load ==
    /\ pc = "loading"
    /\ LET r == load_model(model, file)
       IN /\ model' = r.obj
          /\ pc' = IF r.raised = "none" THEN "ready" ELSE "failed"
    /\ UNCHANGED <<file, reqs, client, cpc, last, saved, startup>>

\* startup_event line 44, model.train() up to the middle of fit()
startup_train_begin ==
    /\ pc = "training"
    /\ \E k \in Corpora : model' = train_fit_begin(model, k)
    /\ pc' = "fitting"
    /\ UNCHANGED <<file, reqs, client, cpc, last, saved, startup>>

\* model.train() from the end of fit() on
startup_train_end ==
    /\ pc = "fitting"
    /\ model' = train_fit_end(model)
    /\ pc' = "fitted"
    /\ UNCHANGED <<file, reqs, client, cpc, last, saved, startup>>

\* startup_event line 45, save_model up to open(filepath, 'wb')
startup_save_open ==
    /\ pc = "fitted"
    /\ IF save_model_guard(model) = "none"
       THEN /\ file' = save_model_open(file)
            /\ saved' = [saved EXCEPT !.est = Unfitted]
            /\ pc' = "saving"
       ELSE /\ file' = file
            /\ saved' = saved
            /\ pc' = "failed"
    /\ UNCHANGED <<model, reqs, client, cpc, last, startup>>

\* save_model's pickle.dump and return; startup_event is complete
startup_save_dump ==
    /\ pc = "saving"
    /\ file' = save_model_dump(model, file)
    /\ saved' = [est |-> model.model, startupDone |-> TRUE]
    /\ pc' = "ready"
    /\ UNCHANGED <<model, reqs, client, cpc, last, startup>>

\* the process ends (shutdown, kill, or exit after a failed startup): its
\* memory is gone, the file stays as it is
Stop ==
    /\ pc # "stopped"
    /\ pc' = "stopped"
    /\ model' = None
    /\ reqs' = [i \in Slots |-> IdleReq]
    /\ startup' = [path |-> "none", afterSave |-> FALSE]
    /\ UNCHANGED <<file, client, cpc, last, saved>>

\* a POST /predict arrives with a JSON list; predict_anomaly lines 62-63
\* read the global and refuse, or go on into the try block
predict_anomaly_check(i) ==
    /\ pc # "stopped"
    /\ reqs[i].pc = "idle"
    /\ \E f \in Probes :
         reqs' = [reqs EXCEPT ![i] =
                    IF predict_anomaly_refused(model)
                    THEN [pc |-> "done", features |-> f,
                          resp |-> HTTP500("Model not initialized", FALSE, Unfitted)]
                    ELSE [pc |-> "checked", features |-> f, resp |-> NoResp]]
    /\ UNCHANGED <<file, pc, model, client, cpc, last, saved, startup>>

\* predict_anomaly lines 65-89
predict_anomaly_score_step(i) ==
    /\ reqs[i].pc = "checked"
    /\ reqs' = [reqs EXCEPT ![i] =
                  [@ EXCEPT !.pc = "done",
                            !.resp = predict_anomaly_body(model, reqs[i].features)]]
    /\ UNCHANGED <<file, pc, model, client, cpc, last, saved, startup>>

\* the response has been sent; the worker slot is free again
request_done(i) ==
    /\ reqs[i].pc = "done"
    /\ reqs' = [reqs EXCEPT ![i] = IdleReq]
    /\ UNCHANGED <<file, pc, model, client, cpc, last, saved, startup>>

\* GET /health
health_request(i) ==
    /\ pc # "stopped"
    /\ reqs[i].pc = "idle"
    /\ reqs' = [reqs EXCEPT ![i] =
                  [pc |-> "done", features |-> <<>>, resp |-> health_check(model)]]
    /\ UNCHANGED <<file, pc, model, client, cpc, last, saved, startup>>

\* ------------------------------------ a script using the class directly
\* model = AnomalyDetectionModel() in a new run of a script (main line 122)
client_new ==
    /\ client' = NewModel
    /\ cpc' = "idle"
    /\ last' = Call("init", "none", 0, FALSE)
    /\ UNCHANGED <<file, pc, model, reqs, saved, startup>>

\* model.train()
client_train ==
    /\ cpc = "idle"
    /\ \E k \in Corpora : client' = train(client, k)
    /\ last' = Call("train", "none", 0, FALSE)
    /\ UNCHANGED <<file, pc, model, reqs, cpc, saved, startup>>

\* model.predict_anomaly_score(features)
client_predict ==
    /\ cpc = "idle"
    /\ \E f \in Probes :
         LET r == predict_anomaly_score(client, f)
         IN last' = Call(IF Len(f) = 0 THEN "predict_empty" ELSE "predict",
                         r.raised, r.score, r.invoked)
    /\ UNCHANGED <<file, pc, model, reqs, client, cpc, saved, startup>>

\* model.save_model(model_path) up to open(filepath, 'wb')
client_save_open ==
    /\ cpc = "idle"
    /\ IF save_model_guard(client) = "none"
       THEN /\ file' = save_model_open(file)
            /\ saved' = [saved EXCEPT !.est = Unfitted]
            /\ cpc' = "saving"
            /\ last' = Call("save_open", "none", 0, FALSE)
       ELSE /\ file' = file
            /\ saved' = saved
            /\ cpc' = "idle"
            /\ last' = Call("save", save_model_guard(client), 0, FALSE)
    /\ UNCHANGED <<pc, model, reqs, client, startup>>

\* a save_model that clears is_trained once the file is written
client_save_dump_clears ==
    /\ cpc = "saving"
    /\ file' = [exists |-> TRUE, data |-> pickle_dump(client.model)]
    /\ saved' = [saved EXCEPT !.est = client.model]
    /\ client' = [client EXCEPT !.is_trained = FALSE]
    /\ cpc' = "idle"
    /\ last' = Call("save", "none", 0, FALSE)
    /\ UNCHANGED <<pc, model, reqs, startup>>

\* save_model's pickle.dump and return
client_save_dump ==
    /\ cpc = "saving"
    /\ file' = save_model_dump(client, file)
    /\ saved' = [saved EXCEPT !.est = client.model]
    /\ cpc' = "idle"
    /\ last' = Call("save", "none", 0, FALSE)
    /\ UNCHANGED <<pc, model, reqs, client, startup>>

\* model.load_model(model_path)
client_load ==
    /\ cpc = "idle"
    /\ LET r == load_model(client, file)
       IN /\ client' = r.obj
          /\ last' = Call("load", r.raised, 0, FALSE)
    /\ UNCHANGED <<file, pc, model, reqs, cpc, saved, startup>>

\* the server process's own life
Lifecycle ==
    \/ Start
    \/ startup_bind
    \/ startup_exists
    \/ startup_load
    \/ startup_train_begin
    \/ startup_train_end
    \/ startup_save_open
    \/ startup_save_dump
    \/ Stop

\* the HTTP handlers
Handlers ==
    \/ \E i \in Slots : predict_anomaly_check(i)
    \/ \E i \in Slots : predict_anomaly_score_step(i)
    \/ \E i \in Slots : request_done(i)
    \/ \E i \in Slots : health_request(i)

\* a script that trains and saves
Writer ==
    \/ client_new
    \/ client_train
    \/ client_save_open
    \/ client_save_dump

\* the other direct calls on the class
Reader ==
    \/ client_predict
    \/ client_load

Next == Lifecycle \/ Handlers \/ Writer \/ Reader

\* the whole system
Spec == Init /\ [][Next]_vars

\* the server with its requests, beside a script that writes the same file
SpecServer == Init /\ [][Lifecycle \/ Handlers \/ Writer]_vars

\* the class used directly, beside a server starting up on the same file
SpecClass == Init /\ [][Lifecycle \/ Writer \/ Reader]_vars

TypeOK ==
    /\ file.exists \in BOOLEAN
    /\ model \in Objects
    /\ client \in Objects /\ ~client.none
    /\ cpc \in {"idle", "saving"}
    /\ pc \in {"stopped", "new", "constructed", "loading", "training", "fitting",
               "fitted", "saving", "ready", "failed"}


\* ---------------------------------------------------------------- claims
Trained(est) == [none |-> FALSE, model |-> est, is_trained |-> TRUE]

\* C1: a startup that begins after some startup has finished save_model takes
\* the load branch; it is never training, fitted-but-unsaved, or saving.
C1_StartupIdempotent ==
    startup.afterSave =>
        /\ startup.path # "train"
        /\ pc \notin {"training", "fitting", "fitted", "saving"}
        /\ file.exists

C1_Witness ==
    startup.afterSave /\ startup.path = "load" /\ pc = "ready" /\ model.is_trained

\* C2: whatever the startup is doing when a request runs, a request that
\* reached decision_function did so on a completely fitted estimator, and a
\* request that has passed the check at line 62 sees a complete model.
C2_NoPartialModelScored ==
    \A i \in Slots :
        /\ reqs[i].resp.invoked => Complete(reqs[i].resp.est)
        /\ reqs[i].pc = "checked" => (~model.none /\ Complete(model.model))

C2_Witness ==
    \E i \in Slots :
        /\ pc = "fitting"
        /\ ~Complete(model.model) /\ model.model # Unfitted
        /\ reqs[i].pc = "done"
        /\ reqs[i].resp.detail = "Model not initialized"

\* C3: on an object whose is_trained is false, predict_anomaly_score (empty
\* input included) and save_model raise the not-trained error, leave the file
\* as it was and leave the object, with is_trained false, as it was.
C3_UntrainedCallsFail ==
    [][ ~client.is_trained =>
          /\ client_predict =>
                (last'.raised = "NotTrained" /\ file' = file /\ client' = client)
          /\ client_save_open =>
                (last'.raised = "NotTrained" /\ file' = file /\ client' = client
                 /\ cpc' = "idle") ]_vars

C3_Witness ==
    /\ last.op = "predict_empty"
    /\ last.raised = "NotTrained"
    /\ ~client.is_trained
    /\ ~file.exists

\* C4: load_model with no file raises the not-found error and leaves the
\* object as it was; load_model of a file that a finished save_model wrote
\* succeeds and leaves is_trained true.
C4_LoadMissingOrSaved ==
    [][ client_load =>
          /\ ~file.exists => (last'.raised = "FileNotFound" /\ client' = client)
          /\ (file.exists /\ saved.est # Unfitted) =>
                (last'.raised = "none" /\ client'.is_trained) ]_vars

C4_Witness ==
    /\ last.op = "load"
    /\ last.raised = "FileNotFound"
    /\ client.is_trained
    /\ ~file.exists

\* C5: with a trained model bound, a /predict request passes the check at
\* line 62, and one with an empty list then answers a verdict of score 0.5,
\* is_anomaly false, without calling decision_function.
C5_EmptyVectorNeutral ==
    [][ \A i \in Slots :
          /\ (predict_anomaly_check(i) /\ ~model.none /\ model.is_trained) =>
                reqs'[i].pc = "checked"
          /\ (predict_anomaly_score_step(i) /\ Len(reqs[i].features) = 0) =>
                /\ reqs'[i].resp.kind = "verdict"
                /\ reqs'[i].resp.score = 500
                /\ ~reqs'[i].resp.is_anomaly
                /\ ~reqs'[i].resp.invoked ]_vars

C5_Witness ==
    \E i \in Slots :
        /\ reqs[i].pc = "done"
        /\ Len(reqs[i].features) = 0
        /\ reqs[i].resp.kind = "verdict"
        /\ reqs[i].resp.score = 500
        /\ model.is_trained

\* C6: every verdict the endpoint returns has
\* confidence = min(1.0, |score - 0.5| * 2).
C6_ConfidenceFormula ==
    \A i \in Slots :
        reqs[i].resp.kind = "verdict" =>
            reqs[i].resp.confidence
                = (IF 2 * Abs(reqs[i].resp.score - 500) > 1000
                   THEN 1000 ELSE 2 * Abs(reqs[i].resp.score - 500))

\* C7: a request whose non-empty list is not NFeatures long is answered with
\* an error without decision_function having been called on it.
C7_WrongLengthRejectedEarly ==
    \A i \in Slots :
        (/\ reqs[i].pc = "done"
         /\ reqs[i].resp.kind # "health"
         /\ Len(reqs[i].features) # 0
         /\ Len(reqs[i].features) # NFeatures)
        => (reqs[i].resp.kind = "http500" /\ ~reqs[i].resp.invoked)

\* C8: a load_model that succeeds yields a model that scores every probe as
\* the model whose save_model wrote the file does, in the script and in the
\* server's startup alike.
SameScores(a, b) ==
    \A p \in Probes :
        /\ predict_anomaly_score(a, p).raised = predict_anomaly_score(b, p).raised
        /\ predict_anomaly_score(a, p).score = predict_anomaly_score(b, p).score

C9_OnlyTrainOrLoadChange ==
    [][ /\ client' # client => (client_new \/ client_train \/ client_load)
        /\ model' # model =>
              (startup_bind \/ startup_load \/ startup_train_begin
               \/ startup_train_end \/ Stop) ]_vars

C9_Witness ==
    /\ last.op = "save"
    /\ last.raised = "none"
    /\ client.is_trained
    /\ \E i \in Slots :
          /\ reqs[i].pc = "done"
          /\ reqs[i].resp.kind = "verdict"
          /\ reqs[i].resp.invoked
          /\ model.is_trained

\* C10: is_trained is true only on an object whose estimator is completely
\* fitted, so when /health would report model_loaded, /predict is not refused
\* and predict_anomaly_score does not raise the not-trained error.
C10_TrainedMeansFitted ==
    /\ model.is_trained => Complete(model.model)
    /\ client.is_trained => Complete(client.model)
    /\ health_check(model).model_loaded =>
          /\ ~predict_anomaly_refused(model)
          /\ Complete(model.model)
          /\ predict_anomaly_score(model, normal_sample).raised = "none"

C10_Witness ==
    /\ pc = "ready"
    /\ health_check(model).model_loaded
    /\ last.op = "load"
    /\ last.raised = "UnpicklingError"
    /\ client.is_trained

====
